---- MODULE Spec2Model ----
(***************************************************************************)
(* Donation backend (backend_prod_ready.py): GET /, POST /create_order,    *)
(* POST /verify_payment and GET /certificate/<filename>, with the          *)
(* certificate directory as the only persistent state.                     *)
(*                                                                         *)
(* Text is a sequence of tokens (single characters, or a literal chunk of  *)
(* a format string).  A JSON value is a record [t, s, n]: t is the Python  *)
(* type, s the text of a str, n the number of an int or bool.              *)
(***************************************************************************)
EXTENDS Integers, Sequences, FiniteSets, TLC

VARIABLES
    env_use_razorpay,  \* the USE_RAZORPAY environment variable was "1"
    USE_RAZORPAY,      \* the module flag after the client set-up
    now,               \* the clock, in whole seconds: int(time.time())
    files,             \* CERT_DIR: filename -> content of the file
    returned,          \* history: every certificate_url a response has carried
    last               \* the most recent request and the response it got

vars == <<env_use_razorpay, USE_RAZORPAY, now, files, returned, last>>

\* The clock runs over 0..MaxTime.
MaxTime == 1

----------------------------------------------------------------------------
\* JSON / Python values

Absent == [t |-> "absent", s |-> <<>>, n |-> 0]
PyNone == [t |-> "none", s |-> <<>>, n |-> 0]
PyTrue == [t |-> "bool", s |-> <<>>, n |-> 1]
PyStr(s) == [t |-> "str", s |-> s, n |-> 0]
PyNum(n) == [t |-> "int", s |-> <<>>, n |-> n]

\* Python truthiness, as used by `not (a and b and c)` and `if donor_email and ...`
Truthy(v) ==
    CASE v.t = "str" -> v.s # <<>>
      [] v.t = "int" -> v.n # 0
      [] v.t = "bool" -> v.n = 1
      [] OTHER -> FALSE

\* dict.get(key): None for a missing key
Get(d, key) == IF d[key].t = "absent" THEN PyNone ELSE d[key]

\* dict.get(key, default): a key present with value null still yields None
GetDefault(d, key, default) == IF d[key].t = "absent" THEN default ELSE d[key]

Digits == <<"0", "1", "2", "3", "4", "5", "6", "7", "8", "9">>
IsDigit(c) == \E i \in 1..Len(Digits) : Digits[i] = c
DigitVal(c) == (CHOOSE i \in 1..Len(Digits) : Digits[i] = c) - 1

RECURSIVE ParseNat(_)
ParseNat(s) ==
    IF s = <<>> THEN 0
    ELSE 10 * ParseNat(SubSeq(s, 1, Len(s) - 1)) + DigitVal(s[Len(s)])

AllDigits(s) == s # <<>> /\ \A i \in 1..Len(s) : IsDigit(s[i])

\* int(v): [ok, n]; ok = FALSE stands for the ValueError / TypeError it raises
PyInt(v) ==
    CASE v.t \in {"int", "bool"} -> [ok |-> TRUE, n |-> v.n]
      [] v.t = "str" ->
            IF AllDigits(v.s) THEN [ok |-> TRUE, n |-> ParseNat(v.s)]
            ELSE IF v.s # <<>> /\ v.s[1] = "-" /\ AllDigits(Tail(v.s))
                 THEN [ok |-> TRUE, n |-> 0 - ParseNat(Tail(v.s))]
                 ELSE [ok |-> FALSE, n |-> 0]
      [] OTHER -> [ok |-> FALSE, n |-> 0]

\* str.replace(a, b) for single-character a and b
Replace(s, a, b) == [i \in 1..Len(s) |-> IF s[i] = a THEN b ELSE s[i]]

----------------------------------------------------------------------------
\* Request bodies

\* request.get_json() or {}: a JSON object; "list" is a non-empty JSON array,
\* which has no .get
EmptyPayload ==
    [shape |-> "dict", razorpay_order_id |-> Absent, razorpay_payment_id |-> Absent,
     razorpay_signature |-> Absent, simulate |-> Absent, name |-> Absent,
     email |-> Absent, amount |-> Absent, order_id |-> Absent]
ListPayload == [EmptyPayload EXCEPT !.shape = "list"]

\* The bodies POST /verify_payment is called with
OrderIdHex == "u1"
FakeOrderId == <<"order_fake_", OrderIdHex>>
SlashOrderId == <<"x", "/", "?">>
PaymentId == <<"pay_1">>

\* HMAC-SHA256 of "order_id|payment_id" under the key secret, as a digest token
Hmac(o, p) == <<"hmac:">> \o o \o <<"|">> \o p

VerifyOrderIds == {Absent, PyStr(FakeOrderId), PyStr(SlashOrderId), PyNum(7)}
VerifyPaymentIds == {PyStr(PaymentId)}
VerifySignatures == {PyStr(<<>>), PyStr(<<"sim_signature">>), PyStr(Hmac(FakeOrderId, PaymentId))}
VerifySimulate == {Absent, PyTrue}
VerifyAmounts == {PyNum(50), PyStr(<<"a", "b", "c">>)}
VerifyEmails == {Absent, PyStr(<<"donor@example.org">>)}

VerifyPayloads ==
    { [EmptyPayload EXCEPT !.razorpay_order_id = o, !.razorpay_payment_id = p,
                           !.razorpay_signature = s, !.simulate = sim,
                           !.amount = a, !.email = e] :
        o \in VerifyOrderIds, p \in VerifyPaymentIds, s \in VerifySignatures,
        sim \in VerifySimulate, a \in VerifyAmounts, e \in VerifyEmails }
    \cup {ListPayload}

\* The bodies POST /create_order is called with
CreateAmounts == {Absent, PyNone, PyNum(0 - 1), PyNum(0), PyNum(5), PyStr(<<"5">>),
                  PyStr(<<"-", "3">>), PyStr(<<"a", "b", "c">>)}
CreatePayloads == {[EmptyPayload EXCEPT !.amount = a] : a \in CreateAmounts} \cup {ListPayload}

----------------------------------------------------------------------------
\* Responses

NoContent == [name |-> PyNone, amount |-> 0, order_id |-> <<>>, written_at |-> 0 - 1]

NoResponse ==
    [kind |-> "none", payload |-> EmptyPayload, target |-> <<>>, filename |-> <<>>,
     status |-> 0, error |-> "", details |-> PyNone,
     id |-> <<>>, amount |-> 0, mode |-> "", gateway_called |-> FALSE,
     certificate_url |-> <<>>, fname |-> <<>>, email_sent |-> FALSE,
     email_error |-> PyNone, mailed |-> FALSE, disk_ok |-> TRUE, smtp_fault |-> "none",
     body |-> NoContent]

\* SMTP_HOST and SMTP_USER and SMTP_PASS are set in the environment
SMTP_CONFIGURED == TRUE

Mode == IF USE_RAZORPAY THEN "razorpay" ELSE "dummy"

----------------------------------------------------------------------------
\* Module initialisation

Init ==
    /\ env_use_razorpay \in BOOLEAN
    /\ \E client_ok \in BOOLEAN :
          USE_RAZORPAY = (env_use_razorpay /\ client_ok)
    /\ now = 0
    /\ files = <<>>
    /\ returned = {}
    /\ last = NoResponse

----------------------------------------------------------------------------
\* GET /

root ==
    /\ last' = [NoResponse EXCEPT !.kind = "root", !.status = 200, !.mode = Mode]
    /\ UNCHANGED <<env_use_razorpay, USE_RAZORPAY, now, files, returned>>

----------------------------------------------------------------------------
\* POST /create_order

\* uuid.uuid4().hex[:12] is drawn from OrderHexes
OrderHexes == {OrderIdHex}

fake_order(amount_inr, hex) ==
    [id |-> <<"order_fake_", hex>>, amount |-> amount_inr * 100, mode |-> "dummy"]

\* razorpay_client.order.create(order_data): the order the gateway returns
\* (it echoes the amount), or "raise"
GatewayOrderIds == {<<"order_", "G1">>}
GatewayOutcomes == {"ok", "raise"}

\* create_order with `amount < 0` where the code has `amount <= 0`
create_order_response_zero_allowed(data, gateway, gateway_id, hex) ==
    LET req == [NoResponse EXCEPT !.kind = "create_order", !.payload = data]
        parsed == IF data.shape = "dict"
                  THEN PyInt(GetDefault(data, "amount", PyNum(0)))
                  ELSE [ok |-> FALSE, n |-> 0]
    IN  IF ~parsed.ok
        THEN [req EXCEPT !.status = 400, !.error = "Invalid amount"]
        ELSE IF parsed.n < 0
        THEN [req EXCEPT !.status = 400, !.error = "Amount must be > 0"]
        ELSE IF USE_RAZORPAY
        THEN IF gateway = "ok"
             THEN [req EXCEPT !.status = 200, !.id = gateway_id,
                              !.amount = parsed.n * 100, !.mode = "razorpay",
                              !.gateway_called = TRUE]
             ELSE [req EXCEPT !.status = 500, !.error = "Razorpay order creation failed",
                              !.details = PyStr(<<"gateway error">>),
                              !.gateway_called = TRUE]
        ELSE [req EXCEPT !.status = 200, !.id = <<"order_fake_", hex>>,
                         !.amount = parsed.n * 100, !.mode = "dummy"]

create_order_response(data, gateway, gateway_id, hex) ==
    LET req == [NoResponse EXCEPT !.kind = "create_order", !.payload = data]
        parsed == IF data.shape = "dict"
                  THEN PyInt(GetDefault(data, "amount", PyNum(0)))
                  ELSE [ok |-> FALSE, n |-> 0]
    IN  IF ~parsed.ok
        THEN [req EXCEPT !.status = 400, !.error = "Invalid amount"]
        ELSE IF parsed.n <= 0
        THEN [req EXCEPT !.status = 400, !.error = "Amount must be > 0"]
        ELSE IF USE_RAZORPAY
        THEN IF gateway = "ok"
             THEN [req EXCEPT !.status = 200, !.id = gateway_id,
                              !.amount = parsed.n * 100, !.mode = "razorpay",
                              !.gateway_called = TRUE]
             ELSE [req EXCEPT !.status = 500, !.error = "Razorpay order creation failed",
                              !.details = PyStr(<<"gateway error">>),
                              !.gateway_called = TRUE]
        ELSE LET order == fake_order(parsed.n, hex)
             IN  [req EXCEPT !.status = 200, !.id = order.id, !.amount = order.amount,
                             !.mode = order.mode]

create_order ==
    /\ \E data \in CreatePayloads, gateway \in GatewayOutcomes,
          gateway_id \in GatewayOrderIds, hex \in OrderHexes :
          last' = create_order_response(data, gateway, gateway_id, hex)
    /\ UNCHANGED <<env_use_razorpay, USE_RAZORPAY, now, files, returned>>

----------------------------------------------------------------------------
\* verify_signature

\* "{}|{}".format(order_id, payment_id) formats a non-string with str()
Format(v) == IF v.t = "str" THEN v.s ELSE <<ToString(v.n)>>

\* razorpay_client.utility.verify_payment_signature: returns (TRUE) when the
\* signature is the HMAC of "order_id|payment_id", raises (FALSE) otherwise
gateway_verify_payment_signature(order_id, payment_id, signature) ==
    /\ signature.t = "str"
    /\ signature.s = Hmac(Format(order_id), Format(payment_id))

\* return True, None / return False, <message>
Accepted == [ok |-> TRUE, err |-> PyNone]
Rejected(msg) == [ok |-> FALSE, err |-> PyStr(<<msg>>)]

\* verify_signature without its check that the three fields are there
verify_signature_fields_optional(payload_dict) ==
    IF payload_dict.shape # "dict"
    THEN Rejected("'list' object has no attribute 'get'")
    ELSE IF USE_RAZORPAY
    THEN IF gateway_verify_payment_signature(Get(payload_dict, "razorpay_order_id"),
                                             Get(payload_dict, "razorpay_payment_id"),
                                             Get(payload_dict, "razorpay_signature"))
         THEN Accepted
         ELSE Rejected("Razorpay Signature Verification Failed")
    ELSE IF \/ Get(payload_dict, "simulate") = PyTrue
            \/ Get(payload_dict, "razorpay_signature") = PyStr(<<"sim_signature">>)
    THEN Accepted
    ELSE Rejected("Dummy mode requires simulate:true or sim_signature")

\* verify_signature with the dummy shortcuts tried before the mode is looked at
verify_signature_shortcuts_first(payload_dict) ==
    IF payload_dict.shape # "dict"
    THEN Rejected("'list' object has no attribute 'get'")
    ELSE IF ~(/\ Truthy(Get(payload_dict, "razorpay_order_id"))
              /\ Truthy(Get(payload_dict, "razorpay_payment_id"))
              /\ Truthy(Get(payload_dict, "razorpay_signature")))
    THEN Rejected("Missing fields")
    ELSE IF \/ Get(payload_dict, "simulate") = PyTrue
            \/ Get(payload_dict, "razorpay_signature") = PyStr(<<"sim_signature">>)
    THEN Accepted
    ELSE IF /\ USE_RAZORPAY
            /\ gateway_verify_payment_signature(Get(payload_dict, "razorpay_order_id"),
                                                Get(payload_dict, "razorpay_payment_id"),
                                                Get(payload_dict, "razorpay_signature"))
    THEN Accepted
    ELSE Rejected("Signature verification failed")

\* verify_signature with a dummy mode that accepts whatever signature is there
verify_signature_dummy_accepts_all(payload_dict) ==
    IF payload_dict.shape # "dict"
    THEN Rejected("'list' object has no attribute 'get'")
    ELSE IF ~(/\ Truthy(Get(payload_dict, "razorpay_order_id"))
              /\ Truthy(Get(payload_dict, "razorpay_payment_id"))
              /\ Truthy(Get(payload_dict, "razorpay_signature")))
    THEN Rejected("Missing fields")
    ELSE IF USE_RAZORPAY
    THEN IF gateway_verify_payment_signature(Get(payload_dict, "razorpay_order_id"),
                                             Get(payload_dict, "razorpay_payment_id"),
                                             Get(payload_dict, "razorpay_signature"))
         THEN Accepted
         ELSE Rejected("Razorpay Signature Verification Failed")
    ELSE Accepted

\* verify_signature with replay protection: an order that already has a
\* certificate is refused
verify_signature_once_per_order(payload_dict) ==
    IF payload_dict.shape # "dict"
    THEN Rejected("'list' object has no attribute 'get'")
    ELSE IF ~(/\ Truthy(Get(payload_dict, "razorpay_order_id"))
              /\ Truthy(Get(payload_dict, "razorpay_payment_id"))
              /\ Truthy(Get(payload_dict, "razorpay_signature")))
    THEN Rejected("Missing fields")
    ELSE IF \E f \in DOMAIN files :
               PyStr(files[f].order_id) = Get(payload_dict, "razorpay_order_id")
    THEN Rejected("Order already verified")
    ELSE IF USE_RAZORPAY
    THEN IF gateway_verify_payment_signature(Get(payload_dict, "razorpay_order_id"),
                                             Get(payload_dict, "razorpay_payment_id"),
                                             Get(payload_dict, "razorpay_signature"))
         THEN Accepted
         ELSE Rejected("Razorpay Signature Verification Failed")
    ELSE IF \/ Get(payload_dict, "simulate") = PyTrue
            \/ Get(payload_dict, "razorpay_signature") = PyStr(<<"sim_signature">>)
    THEN Accepted
    ELSE Rejected("Dummy mode requires simulate:true or sim_signature")

\* (ok, err) as a record
verify_signature(payload_dict) ==
    IF payload_dict.shape # "dict"
    THEN Rejected("'list' object has no attribute 'get'")
    ELSE
    LET razorpay_order_id == Get(payload_dict, "razorpay_order_id")
        razorpay_payment_id == Get(payload_dict, "razorpay_payment_id")
        razorpay_signature == Get(payload_dict, "razorpay_signature")
    IN  IF ~(Truthy(razorpay_order_id) /\ Truthy(razorpay_payment_id)
             /\ Truthy(razorpay_signature))
        THEN Rejected("Missing fields")
        ELSE IF USE_RAZORPAY
        THEN IF gateway_verify_payment_signature(razorpay_order_id, razorpay_payment_id,
                                                 razorpay_signature)
             THEN Accepted
             ELSE Rejected("Razorpay Signature Verification Failed")
        ELSE IF Get(payload_dict, "simulate") = PyTrue
        THEN Accepted
        ELSE IF razorpay_signature = PyStr(<<"sim_signature">>)
        THEN Accepted
        ELSE Rejected("Dummy mode requires simulate:true or sim_signature")

----------------------------------------------------------------------------
\* generate_certificate

\* f"certificate_{safe_order}_{int(time.time())}.pdf"
CertificateFilename(order_id, time) ==
    <<"certificate_">> \o Replace(order_id, "/", "_") \o <<"_", ToString(time), ".pdf">>

\* What the canvas draws: name, amount, order id and the time of writing
CertificateContent(name, amount, order_id, time) ==
    [name |-> name, amount |-> amount, order_id |-> order_id, written_at |-> time]

\* [ok, filename, dir]: dir is CERT_DIR afterwards.  It raises (ok = FALSE)
\* when order_id has no .replace or when the canvas cannot be saved
\* (disk_failed); saving replaces a file that already has the name.
generate_certificate(name, amount, order_id, disk_ok) ==
    IF order_id.t # "str"
    THEN [ok |-> FALSE, filename |-> <<>>, dir |-> files, disk_failed |-> FALSE,
          err |-> <<"object has no attribute 'replace'">>]
    ELSE LET filename == CertificateFilename(order_id.s, now)
         IN  IF ~disk_ok
             THEN [ok |-> FALSE, filename |-> <<>>, dir |-> files, disk_failed |-> TRUE,
                   err |-> <<"cannot write file">>]
             ELSE [ok |-> TRUE, filename |-> filename,
                   dir |-> (filename :> CertificateContent(name, amount, order_id.s, now))
                           @@ files,
                   disk_failed |-> FALSE, err |-> <<>>]

----------------------------------------------------------------------------
\* send_email_with_attachment

\* The step of send_email_with_attachment that raises, or "none"
SmtpFaults == {"none", "read", "connect", "starttls", "login", "send"}

\* send_email_with_attachment catching its own exceptions: the caller sees it return
send_email_with_attachment_swallowing(to_email, attachment, smtp_fault) ==
    [sent |-> TRUE, err |-> PyNone]

\* [sent, err]: the message is handed to the server only when no step raised
send_email_with_attachment(to_email, attachment, smtp_fault) ==
    IF smtp_fault = "none"
    THEN [sent |-> TRUE, err |-> PyNone]
    ELSE [sent |-> FALSE, err |-> PyStr(<<"smtp error: ", smtp_fault>>)]

----------------------------------------------------------------------------
\* POST /verify_payment

verify_payment_response(payload, disk_ok, smtp_fault) ==
    LET req == [NoResponse EXCEPT !.kind = "verify_payment", !.payload = payload]
        checked == verify_signature(payload)
    IN  IF ~checked.ok
        THEN [resp |-> [req EXCEPT !.status = 400,
                                   !.error = "Signature verification failed",
                                   !.details = checked.err],
              dir |-> files]
        ELSE
        LET donor_name == GetDefault(payload, "name", PyStr(<<"Donor">>))
            donor_email == Get(payload, "email")
            amount == PyInt(GetDefault(payload, "amount", PyNum(0)))
            order_id == GetDefault(payload, "razorpay_order_id",
                                   GetDefault(payload, "order_id",
                                              PyStr(<<"order_", ToString(now)>>)))
            internal(msg) ==
                [req EXCEPT !.status = 500,
                            !.error = "Internal error generating certificate",
                            !.details = PyStr(msg)]
        IN  IF ~amount.ok
            THEN [resp |-> internal(<<"invalid literal for int()">>), dir |-> files]
            ELSE
            LET cert == generate_certificate(donor_name, amount.n, order_id, disk_ok)
            IN  IF ~cert.ok
                THEN [resp |-> [internal(cert.err) EXCEPT !.disk_ok = ~cert.disk_failed],
                      dir |-> cert.dir]
                ELSE
                LET attempt == Truthy(donor_email) /\ SMTP_CONFIGURED
                    mail == IF attempt
                            THEN send_email_with_attachment(
                                     donor_email, cert.dir[cert.filename], smtp_fault)
                            ELSE [sent |-> FALSE, err |-> PyNone]
                IN  [resp |-> [req EXCEPT !.status = 200,
                                          !.id = order_id.s,
                                          !.amount = amount.n,
                                          !.fname = cert.filename,
                                          !.certificate_url =
                                              <<"/certificate/">> \o cert.filename,
                                          !.email_sent = mail.sent,
                                          !.email_error = mail.err,
                                          !.mailed = mail.sent,
                                          !.smtp_fault =
                                              IF attempt THEN smtp_fault ELSE "none"],
                     dir |-> cert.dir]

\* The faults of the environment a call can meet: those of the steps it reaches
DiskOutcomes(payload) ==
    IF verify_signature(payload).ok THEN BOOLEAN ELSE {TRUE}
SmtpOutcomes(payload, disk_ok) ==
    IF /\ disk_ok /\ SMTP_CONFIGURED /\ Truthy(Get(payload, "email"))
       /\ verify_payment_response(payload, disk_ok, "none").resp.status = 200
    THEN SmtpFaults ELSE {"none"}

verify_payment ==
    /\ \E payload \in VerifyPayloads :
       \E disk_ok \in DiskOutcomes(payload) :
       \E smtp_fault \in SmtpOutcomes(payload, disk_ok) :
          LET out == verify_payment_response(payload, disk_ok, smtp_fault)
          IN  /\ last' = out.resp
              /\ files' = out.dir
              /\ returned' = IF out.resp.status = 200
                             THEN returned \cup {out.resp.certificate_url}
                             ELSE returned
    /\ UNCHANGED <<env_use_razorpay, USE_RAZORPAY, now>>

----------------------------------------------------------------------------
\* GET /certificate/<path:filename>

\* The request target up to its query string
TargetPath(target) ==
    IF \E i \in 1..Len(target) : target[i] = "?"
    THEN SubSeq(target, 1, (CHOOSE i \in 1..Len(target) :
                               /\ target[i] = "?"
                               /\ \A j \in 1..(i - 1) : target[j] # "?") - 1)
    ELSE target

\* Percent-encoding of a path by a client, and its decoding by the server
Quote(s) == Replace(s, "?", "%3F")
Unquote(s) == Replace(s, "%3F", "?")

\* The file this module is (BASE_DIR / its name), as seen from CERT_DIR
ModuleFile == <<"..", "/", "backend_prod_ready.py">>

\* (CERT_DIR / filename).exists()
Exists(filename) == filename \in DOMAIN files \/ filename = ModuleFile

\* send_from_directory refuses a path that leaves the directory
SafeJoin(filename) == \A i \in 1..Len(filename) : filename[i] # ".."

\* serve_certificate without the exists() test: nothing to send is an empty 200
serve_certificate_response_unchecked(target) ==
    LET path == Unquote(TargetPath(target))
        req == [NoResponse EXCEPT !.kind = "serve_certificate", !.target = target]
    IN  IF ~(Len(path) >= 2 /\ path[1] = "/certificate/")
        THEN [req EXCEPT !.status = 404]
        ELSE LET filename == Tail(path)
             IN  IF ~SafeJoin(filename)
                 THEN [req EXCEPT !.status = 404, !.filename = filename]
                 ELSE [req EXCEPT !.status = 200, !.filename = filename,
                                  !.body = IF filename \in DOMAIN files
                                           THEN files[filename] ELSE NoContent]

serve_certificate_response(target) ==
    LET path == Unquote(TargetPath(target))
        req == [NoResponse EXCEPT !.kind = "serve_certificate", !.target = target]
    IN  IF ~(Len(path) >= 2 /\ path[1] = "/certificate/")
        THEN [req EXCEPT !.status = 404]
        ELSE LET filename == Tail(path)
             IN  IF ~Exists(filename)
                 THEN [req EXCEPT !.status = 404, !.filename = filename]
                 ELSE IF ~SafeJoin(filename)
                 THEN [req EXCEPT !.status = 404, !.filename = filename]
                 ELSE [req EXCEPT !.status = 200, !.filename = filename,
                                  !.body = files[filename]]

\* The names generate_certificate can give a file, and one it cannot
StringOrderIds == {v.s : v \in {w \in VerifyOrderIds : w.t = "str" /\ w.s # <<>>}}
CertificateNames ==
    {CertificateFilename(o, time) : o \in StringOrderIds, time \in 0..MaxTime}
OtherNames == {<<"missing.pdf">>, ModuleFile}

Targets ==
    {<<"/certificate/">> \o f : f \in CertificateNames \cup OtherNames}
    \cup {<<"/certificate/">> \o Quote(f) : f \in CertificateNames}

serve_certificate ==
    /\ \E target \in Targets : last' = serve_certificate_response(target)
    /\ UNCHANGED <<env_use_razorpay, USE_RAZORPAY, now, files, returned>>

----------------------------------------------------------------------------
\* The clock

Tick ==
    /\ now < MaxTime
    /\ now' = now + 1
    /\ UNCHANGED <<env_use_razorpay, USE_RAZORPAY, files, returned, last>>

Next ==
    \/ root
    \/ create_order
    \/ verify_payment
    \/ serve_certificate
    \/ Tick

Spec == Init /\ [][Next]_vars

----------------------------------------------------------------------------
\* Properties

IsVerify == last.kind = "verify_payment"
IsCreate == last.kind = "create_order"
IsServe == last.kind = "serve_certificate"

SimSignature == PyStr(<<"sim_signature">>)

\* The three required fields of a payload are present and non-empty
HasFields(p) ==
    /\ p.shape = "dict"
    /\ p.razorpay_order_id.t \notin {"absent", "none"}
    /\ p.razorpay_order_id # PyStr(<<>>)
    /\ p.razorpay_payment_id.t \notin {"absent", "none"}
    /\ p.razorpay_payment_id # PyStr(<<>>)
    /\ p.razorpay_signature.t \notin {"absent", "none"}
    /\ p.razorpay_signature # PyStr(<<>>)

\* One of the two dummy shortcuts is in the payload
HasShortcut(p) == p.simulate = PyTrue \/ p.razorpay_signature = SimSignature

\* The signature is the gateway's HMAC of the order id and the payment id
HasGatewaySignature(p) ==
    /\ p.razorpay_order_id.t = "str"
    /\ p.razorpay_payment_id.t = "str"
    /\ p.razorpay_signature = PyStr(Hmac(p.razorpay_order_id.s, p.razorpay_payment_id.s))

\* C1 as stated: in dummy mode a /verify_payment call passes the check (is not
\* answered 400) if and only if its payload has simulate == true or
\* razorpay_signature == "sim_signature", the required fields being there or not.
C1_ShortcutAloneDecides ==
    (IsVerify /\ ~USE_RAZORPAY) =>
        ((last.status # 400) <=> HasShortcut(last.payload))

\* C1 amended: in dummy mode a /verify_payment call passes the check if and
\* only if razorpay_order_id, razorpay_payment_id and razorpay_signature are all
\* present and non-empty and the payload has simulate == true or
\* razorpay_signature == "sim_signature"; every other call is answered 400
\* with the error "Signature verification failed" and a non-empty detail.
C1_DummyVerification ==
    (IsVerify /\ ~USE_RAZORPAY) =>
        /\ (last.status # 400) <=> (HasFields(last.payload) /\ HasShortcut(last.payload))
        /\ (last.status = 400) =>
              /\ last.error = "Signature verification failed"
              /\ last.details.t = "str" /\ last.details.s # <<>>
              /\ last.certificate_url = <<>>

C1_Witness ==
    /\ IsVerify /\ ~USE_RAZORPAY
    /\ last.payload.simulate = PyTrue
    /\ last.payload.razorpay_signature # SimSignature
    /\ HasFields(last.payload)
    /\ last.status = 200

\* C3: a /create_order request whose amount is missing, is not convertible to
\* an integer or converts to an integer <= 0 is answered 400 with no order,
\* in both modes, and the gateway is not called for it.
C3_BadAmounts ==
    {Absent, PyNone, PyNum(0 - 1), PyNum(0), PyStr(<<"-", "3">>), PyStr(<<"a", "b", "c">>)}

C3_NonPositiveAmountRejected ==
    (IsCreate /\ (last.payload.shape # "dict" \/ last.payload.amount \in C3_BadAmounts)) =>
        /\ last.status = 400
        /\ last.id = <<>>
        /\ ~last.gateway_called

C3_Witness ==
    /\ IsCreate /\ USE_RAZORPAY
    /\ last.payload.amount = PyNum(0)
    /\ last.status = 400

\* C10: in razorpay mode a /verify_payment call passes the check only if the
\* gateway accepts its signature, whatever shortcut the payload carries, and a
\* call the gateway refuses is answered 400; GET / reports "razorpay" exactly
\* when the gateway is in use, and "dummy" (with the shortcuts honoured) when
\* USE_RAZORPAY was set but the client could not be initialised.
C10_ShortcutsOnlyInDummyMode ==
    /\ USE_RAZORPAY => env_use_razorpay
    /\ (last.kind = "root") => (last.mode = "razorpay" <=> USE_RAZORPAY)
    /\ (IsVerify /\ USE_RAZORPAY) =>
          ((last.status # 400) <=> HasGatewaySignature(last.payload))
    /\ (IsVerify /\ ~USE_RAZORPAY /\ HasFields(last.payload) /\ HasShortcut(last.payload)) =>
          last.status # 400

C10_Witness ==
    /\ IsVerify /\ USE_RAZORPAY
    /\ last.payload.simulate = PyTrue
    /\ last.payload.razorpay_signature = SimSignature
    /\ HasFields(last.payload)
    /\ last.status = 400

\* A step that handles a request (the clock step is the only other one)
Handled == now' = now

\* C2 as stated: a successful /verify_payment call never writes its
\* certificate under a name that is already a file of the directory.
C2_FilenamesNeverCollide ==
    [][(Handled /\ last'.kind = "verify_payment" /\ last'.status = 200
            /\ <<files, last>>' # <<files, last>>)
          => last'.fname \notin DOMAIN files]_vars

\* C4: when the email step of a /verify_payment call raises, at whatever point,
\* the certificate of the call is in the directory and the response is the
\* success response (200, "success", certificate_url set), with
\* email_sent == false and a non-null email_error.
C4_EmailFailureNotFatal ==
    (IsVerify /\ last.smtp_fault # "none") =>
        /\ last.status = 200
        /\ last.fname \in DOMAIN files
        /\ files[last.fname].order_id = last.id
        /\ last.certificate_url = <<"/certificate/">> \o last.fname
        /\ last.email_sent = FALSE
        /\ last.email_error # PyNone

C4_Witness ==
    /\ IsVerify /\ last.smtp_fault = "login"
    /\ last.status = 200
    /\ last.email_error.t = "str"

\* C5: GET /certificate/<filename> answers 404 when filename names no file of
\* the certificate directory, and otherwise 200 with the content that
\* generate_certificate wrote under that name.
C5_ServeRoundTrip ==
    IsServe =>
        /\ (last.filename \notin DOMAIN files) => last.status = 404
        /\ (last.filename \in DOMAIN files) =>
              /\ last.status = 200
              /\ last.body = files[last.filename]
              /\ CertificateFilename(last.body.order_id, last.body.written_at)
                     = last.filename

C5_Witness ==
    /\ IsServe /\ last.status = 200
    /\ last.body.order_id = SlashOrderId
    /\ last.body.amount = 50

\* C6 as stated: status 500 is returned only for an internal or gateway failure
\* (the gateway's order creation raised, the certificate could not be written).
C6_Status500OnlyInternal ==
    (last.status = 500) =>
        \/ IsCreate /\ last.gateway_called
        \/ IsVerify /\ ~last.disk_ok

\* C7 as stated: every certificate_url a response has carried names a file
\* that is still in the directory, and a GET of that URL returns the file.
C7_ReturnedUrlsRetrievable ==
    \A url \in returned :
        /\ Tail(url) \in DOMAIN files
        /\ (IsServe /\ last.target = url) => last.status = 200

\* The part of C7 the code keeps: no step removes a file from the directory.
C7_FilesOnlyGrow == [][DOMAIN files \subseteq DOMAIN files']_vars

\* C8: verification has no memory.  The call just answered was answered as
\* verify_signature judges its payload; no later step of any endpoint (nor the
\* clock) changes that judgement; and the same payload sent again, the disk
\* behaving the same, gets the same status.
C8_NoCrossRequestMemory ==
    [][IsVerify =>
          \A p \in {last.payload} :
              /\ (last.status # 400) <=> verify_signature(p).ok
              /\ verify_signature(p)' = verify_signature(p)
              /\ (last'.kind = "verify_payment" /\ last'.payload = p
                      /\ last'.disk_ok = last.disk_ok)
                    => last'.status = last.status]_vars

\* An order id that /create_order never returned is accepted, on a replay,
\* one second after it was accepted first.
C8_Witness ==
    /\ IsVerify /\ last.status = 200 /\ now = 1
    /\ last.id = SlashOrderId
    /\ CertificateFilename(SlashOrderId, 0) \in DOMAIN files
    /\ Cardinality(returned) >= 2

\* The signature check of a payload fails: a required field is missing, or the
\* signature is not the one the mode asks for
CheckFails(p) ==
    \/ ~HasFields(p)
    \/ USE_RAZORPAY /\ ~HasGatewaySignature(p)
    \/ ~USE_RAZORPAY /\ ~HasShortcut(p)

\* C9: a /verify_payment call whose check fails is answered 400, leaves the
\* certificate directory as it was and sends no email; GET /, /create_order and
\* GET /certificate/<filename> never write a file nor send an email; whenever a
\* file is written or an email sent, it is by a /verify_payment call whose
\* check passed.
C9_EffectsOnlyAfterVerification ==
    [][Handled =>
          /\ (last'.kind = "verify_payment" /\ CheckFails(last'.payload)) =>
                /\ last'.status = 400
                /\ files' = files
                /\ ~last'.mailed
          /\ (last'.kind \in {"root", "create_order", "serve_certificate"}) =>
                /\ files' = files
                /\ ~last'.mailed
          /\ (files' # files \/ last'.mailed) =>
                /\ last'.kind = "verify_payment"
                /\ ~CheckFails(last'.payload)]_vars

\* A call with a well-formed but wrong signature, refused while certificates
\* of earlier calls are in the directory
C9_Witness ==
    /\ IsVerify /\ last.status = 400
    /\ HasFields(last.payload) /\ CheckFails(last.payload)
    /\ files # <<>>
    /\ ~last.mailed

====
